---------------------------- MODULE Spec2Model ----------------------------
(***************************************************************************)
(* Model of streamlit_app.py: the CSV dashboard script of the repository.  *)
(* The script is re-run top to bottom on every interaction; the model      *)
(* follows one run through load, upload fallback, column clean-up, role    *)
(* detection, coercion, aggregation and the top-N collapse.                *)
(*                                                                         *)
(* Text is modelled as a sequence of one-character strings, so that        *)
(* substring tests, stripping and parsing are computed, not assumed.       *)
(***************************************************************************)
EXTENDS Integers, Sequences, FiniteSets, TLC

VARIABLES
    pc,             \* position of the script run: "start", "loaded", "have_df",
                    \* "normalized", "mapped", "coerced", "done"; or "stopped"
                    \* (st.stop()) or "crashed" (uncaught exception)
    runs,           \* script runs started so far
    net,            \* the fetch strategies that would succeed right now
    url_table,      \* the table the URL serves
    cache,          \* st.cache_data's entry for load_from_url(URL)
    net_accesses,   \* how often pd.read_csv(url, ...) went to the network
    fetch_net,      \* net at the time of the network access
    first_result,   \* what the first call of load_from_url returned
    ret,            \* what this run's call of load_from_url returned
    src,            \* where df comes from: "none" | "url" | "upload"
    up_table,       \* the uploaded table parsed by this run
    df,             \* the script's df
    shown,          \* texts written to the page by this run
    auto,           \* find_column's result per role
    roles,          \* provider_col, year_col, amount_col after the select boxes
    explicit,       \* per role: the user picked the select box's value
    summary,        \* summary
    bar_plot_data,  \* bar_plot_data
    f_cols,     \* find_column: the list of cleaned column names (dfcols)
    f_role,     \* find_column: the role whose keyword list is used
    f_out,      \* find_column: the returned column name, or None
    f_pc,       \* find_column: "off" | "call" | "ret"
    a_in,       \* clean_amount_series: one cell of the series s
    a_out,      \* clean_amount_series: the number returned for it, or NaN
    a_pc,       \* clean_amount_series: "off" | "call" | "ret"
    c_df,       \* coercion: the DataFrame before line 130
    c_roles,    \* coercion: provider_col, year_col, amount_col
    c_out,      \* coercion: the DataFrame after line 149
    c_pc,       \* coercion: "off" | "start" | "done"
    g_df,       \* aggregation: the cleaned DataFrame (after line 149)
    g_filtered, \* aggregation: filtered, as (year, provider, amount) rows
    g_top_n,    \* aggregation: the sidebar's top_n
    g_summary,  \* aggregation: summary, in its sorted row order
    g_bar_data, \* aggregation: bar_data of the chosen year, sorted
    g_plot,     \* aggregation: bar_plot_data
    g_pc        \* "off" | "start" | "filtered" | "summary" | "done" | "crashed"

find_vars == <<f_cols, f_role, f_out, f_pc>>

amount_vars == <<a_in, a_out, a_pc>>

coerce_vars == <<c_df, c_roles, c_out, c_pc>>

agg_vars == <<g_df, g_filtered, g_top_n, g_summary, g_bar_data, g_plot, g_pc>>

run_vars ==
    <<pc, runs, net, url_table, cache, net_accesses, fetch_net, first_result, ret,
      src, up_table, df, shown, auto, roles, explicit, summary, bar_plot_data>>

vars == <<run_vars, find_vars, amount_vars, coerce_vars, agg_vars>>

-----------------------------------------------------------------------------
(* Text helpers *)

\* Python's None; no text is equal to it (texts hold one-character strings).
None == <<"None">>

\* k in c  (Python substring test on str)
Contains(k, c) ==
    \E i \in 0..(Len(c) - Len(k)) : SubSeq(c, i + 1, i + Len(k)) = k

\* All sequences over S of length at most n.
SeqsUpTo(S, n) == UNION {[1..m -> S] : m \in 0..n}

SetMin(S) == CHOOSE x \in S : \A y \in S : x <= y

-----------------------------------------------------------------------------
(* Column role detection: find_column and its three keyword lists *)

Roles == {"provider", "year", "amount"}

provider_keywords ==
    << <<"p", "a", "l", "v", "e", "l", "u">>,
       <<"t", "u", "o", "t", "t", "a", "j", "a">>,
       <<"p", "r", "o", "v", "i", "d", "e", "r">>,
       <<"y", "r", "i", "t", "y", "s">>,
       <<"t", "o", "i", "m", "i", "j", "a">> >>

year_keywords ==
    << <<"v", "u", "o", "s", "i">>,
       <<"y", "e", "a", "r">>,
       <<"v">> >>

amount_keywords ==
    << <<"k", "o", "r", "v", "a">>,
       <<"e", "u", "r", "o">>,
       <<"s", "u", "m", "m", "a">>,
       <<"m", "a", "a", "r", "a">>,
       <<"a", "m", "o", "u", "n", "t">>,
       <<"s", "u", "m">> >>

KeywordsOf(role) ==
    CASE role = "provider" -> provider_keywords
      [] role = "year"     -> year_keywords
      [] role = "amount"   -> amount_keywords

\* inner loop:  for c in dfcols: if k in c: return c
RECURSIVE ScanCols(_, _, _)
ScanCols(dfcols, k, i) ==
    IF i > Len(dfcols) THEN None
    ELSE IF Contains(k, dfcols[i]) THEN dfcols[i]
    ELSE ScanCols(dfcols, k, i + 1)

\* outer loop:  for k in keywords: ...;  return None
RECURSIVE ScanKeywords(_, _, _)
ScanKeywords(dfcols, keywords, j) ==
    IF j > Len(keywords) THEN None
    ELSE LET c == ScanCols(dfcols, keywords[j], 1)
         IN  IF c # None THEN c ELSE ScanKeywords(dfcols, keywords, j + 1)

\* A find_column whose loops are nested the other way round (columns outside,
\* keywords inside).
RECURSIVE ScanColsFirst(_, _, _)
ScanColsFirst(dfcols, keywords, i) ==
    IF i > Len(dfcols) THEN None
    ELSE IF \E j \in 1..Len(keywords) : Contains(keywords[j], dfcols[i])
         THEN dfcols[i]
         ELSE ScanColsFirst(dfcols, keywords, i + 1)

find_column_columns_first(dfcols, keywords) == ScanColsFirst(dfcols, keywords, 1)

find_column(dfcols, keywords) == ScanKeywords(dfcols, keywords, 1)

-----------------------------------------------------------------------------
(* Numbers and missing values *)

\* A decimal number is <<m, e>>, meaning m / 10^e, kept canonical: e = 0 or
\* m is not a multiple of ten. NaN (pandas' missing value) is no such pair.
NaN == <<0, -1>>

IsNumber(x) == x # NaN

RECURSIVE Pow10(_)
Pow10(n) == IF n = 0 THEN 1 ELSE 10 * Pow10(n - 1)

RECURSIVE Canon(_, _)
Canon(m, e) ==
    IF e > 0 /\ m % 10 = 0 THEN Canon(m \div 10, e - 1) ELSE <<m, e>>

DigitSeq == <<"0", "1", "2", "3", "4", "5", "6", "7", "8", "9">>

Digits == {DigitSeq[i] : i \in 1..Len(DigitSeq)}

DigitVal(c) == (CHOOSE i \in 1..Len(DigitSeq) : DigitSeq[i] = c) - 1

\* A DataFrame cell: a text (object column), a number, or missing (NaN).
TextCell(s) == [t |-> "text", s |-> s, n |-> NaN]

NanCell == [t |-> "nan", s |-> <<>>, n |-> NaN]

NumCell(x) == IF x = NaN THEN NanCell ELSE [t |-> "num", s |-> <<>>, n |-> x]

IsNa(cell) == cell.t = "nan"

\* The decimal digits of a natural number.
RECURSIVE IntText(_)
IntText(n) ==
    IF n < 10 THEN <<DigitSeq[n + 1]>>
    ELSE IntText(n \div 10) \o <<DigitSeq[(n % 10) + 1]>>

RECURSIVE ZeroPad(_, _)
ZeroPad(s, w) == IF Len(s) >= w THEN s ELSE ZeroPad(<<"0">> \o s, w)

\* str(x) of a number of an int64 column ("2011") or a float64 column
\* ("2011.0", "12.5").
NumToText(x, dtype) ==
    LET m    == x[1]
        e    == x[2]
        a    == IF m < 0 THEN 0 - m ELSE m
        sign == IF m < 0 THEN <<"-">> ELSE <<>>
        ip   == IntText(a \div Pow10(e))
        fp   == IF e = 0 THEN <<"0">> ELSE ZeroPad(IntText(a % Pow10(e)), e)
    IN  IF dtype = "int64" THEN sign \o ip ELSE sign \o ip \o <<".">> \o fp

\* The cell as text: astype(str). A missing cell becomes the text "nan".
AsStr(cell, dtype) ==
    CASE cell.t = "text" -> cell.s
      [] cell.t = "nan"  -> <<"n", "a", "n">>
      [] cell.t = "num"  -> NumToText(cell.n, dtype)

\* Reads digits of s from position i on: <<position after them, value, count>>.
RECURSIVE ScanDigits(_, _, _, _)
ScanDigits(s, i, acc, n) ==
    IF i <= Len(s) /\ s[i] \in Digits
    THEN ScanDigits(s, i + 1, 10 * acc + DigitVal(s[i]), n + 1)
    ELSE <<i, acc, n>>

\* pd.to_numeric(..., errors="coerce") on one text: an optional sign, digits,
\* an optional point, digits; at least one digit; nothing left over.
to_numeric(s) ==
    LET neg  == Len(s) >= 1 /\ s[1] = "-"
        a    == ScanDigits(s, IF neg THEN 2 ELSE 1, 0, 0)
        dot  == a[1] <= Len(s) /\ s[a[1]] = "."
        b    == IF dot THEN ScanDigits(s, a[1] + 1, a[2], 0) ELSE <<a[1], a[2], 0>>
    IN  IF a[3] + b[3] = 0 \/ b[1] <= Len(s)
        THEN NaN
        ELSE Canon(IF neg THEN 0 - b[2] ELSE b[2], b[3])

-----------------------------------------------------------------------------
(* Amount coercion: clean_amount_series, cell by cell *)

\* The characters the pattern [^\d,\-\.] leaves in place.
AmountKept == Digits \cup {",", "-", "."}

\* s2.str.replace(r"[^\d,\-\.]", "", regex=True)
RECURSIVE StripNonAmount(_)
StripNonAmount(s) ==
    IF s = <<>> THEN <<>>
    ELSE IF Head(s) \in AmountKept
         THEN <<Head(s)>> \o StripNonAmount(Tail(s))
         ELSE StripNonAmount(Tail(s))

\* s2.str.replace(",", ".", regex=False)
CommaToDot(s) == [i \in 1..Len(s) |-> IF s[i] = "," THEN "." ELSE s[i]]

\* s2.str.replace(r"^\.$", "0", regex=True)
LoneDotToZero(s) == IF s = <<".">> THEN <<"0">> ELSE s

\* A minus sign that is not the first remaining character is removed too.
RECURSIVE DropInnerMinus(_, _)
DropInnerMinus(s, first) ==
    IF s = <<>> THEN <<>>
    ELSE IF Head(s) = "-" /\ ~first
         THEN DropInnerMinus(Tail(s), FALSE)
         ELSE <<Head(s)>> \o DropInnerMinus(Tail(s), FALSE)

\* clean_amount_series with the pattern keeping only a leading minus sign.
clean_amount_leading_minus(cell, dtype) ==
    to_numeric(LoneDotToZero(CommaToDot(
        DropInnerMinus(StripNonAmount(AsStr(cell, dtype)), TRUE))))

\* clean_amount_series on one cell of a column of the given dtype
clean_amount_series(cell, dtype) ==
    to_numeric(LoneDotToZero(CommaToDot(StripNonAmount(AsStr(cell, dtype)))))

-----------------------------------------------------------------------------
(* The DataFrame and the coercion stage (type conversion, dropna, strip) *)

\* A DataFrame: column names, one dtype per column, and rows that keep the
\* index label (id) they were read with.
ColPos(frame, c) == CHOOSE i \in 1..Len(frame.cols) : frame.cols[i] = c

\* dtype of pd.to_numeric's result: int64 when every value is a whole number,
\* float64 as soon as one is missing or fractional.
NumericDtype(vals) ==
    IF \E i \in 1..Len(vals) : vals[i] = NaN \/ vals[i][2] > 0
    THEN "float64" ELSE "int64"

\* df[c] = <numeric series>
AssignNumeric(frame, p, vals) ==
    [cols   |-> frame.cols,
     dtypes |-> [j \in 1..Len(frame.dtypes) |->
                    IF j = p THEN NumericDtype(vals) ELSE frame.dtypes[j]],
     rows   |-> [i \in 1..Len(frame.rows) |->
                    [id    |-> frame.rows[i].id,
                     cells |-> [j \in 1..Len(frame.cols) |->
                                  IF j = p THEN NumCell(vals[i])
                                  ELSE frame.rows[i].cells[j]]]]]

\* .str.extract(r"(\d{4})", expand=False): the first run of four digits.
NoMatch == <<"NoMatch">>

RECURSIVE ExtractFourDigits(_, _)
ExtractFourDigits(s, i) ==
    IF i + 3 > Len(s) THEN NoMatch
    ELSE IF \A j \in i..(i + 3) : s[j] \in Digits
         THEN SubSeq(s, i, i + 3)
         ELSE ExtractFourDigits(s, i + 1)

\* pd.to_numeric(df[year_col].astype(str).str.extract(...), errors="coerce")
year_to_numeric(cell, dtype) ==
    LET m == ExtractFourDigits(AsStr(cell, dtype), 1)
    IN  IF m = NoMatch THEN NaN ELSE to_numeric(m)

CoerceYear(frame, year_col) ==
    LET p == ColPos(frame, year_col)
    IN  AssignNumeric(frame, p,
            [i \in 1..Len(frame.rows) |->
                year_to_numeric(frame.rows[i].cells[p], frame.dtypes[p])])

\* df[amount_col] = clean_amount_series(df[amount_col])
CoerceAmount(frame, amount_col) ==
    LET p == ColPos(frame, amount_col)
    IN  AssignNumeric(frame, p,
            [i \in 1..Len(frame.rows) |->
                clean_amount_series(frame.rows[i].cells[p], frame.dtypes[p])])

\* df.dropna(subset=[year_col, amount_col])
DropNa(frame, subset) ==
    LET Keep(r) == \A c \in subset : ~IsNa(r.cells[ColPos(frame, c)])
    IN  [frame EXCEPT !.rows = SelectSeq(frame.rows, Keep)]

Whitespace == {" "}

RECURSIVE LStrip(_)
LStrip(s) ==
    IF s # <<>> /\ Head(s) \in Whitespace THEN LStrip(Tail(s)) ELSE s

RECURSIVE RStrip(_)
RStrip(s) ==
    IF s # <<>> /\ s[Len(s)] \in Whitespace
    THEN RStrip(SubSeq(s, 1, Len(s) - 1)) ELSE s

\* str.strip()
Strip(s) == RStrip(LStrip(s))

\* df[provider_col] = df[provider_col].astype(str).str.strip()
StripProvider(frame, provider_col) ==
    LET p == ColPos(frame, provider_col)
    IN  [cols   |-> frame.cols,
         dtypes |-> [j \in 1..Len(frame.dtypes) |->
                        IF j = p THEN "object" ELSE frame.dtypes[j]],
         rows   |-> [i \in 1..Len(frame.rows) |->
                        [id    |-> frame.rows[i].id,
                         cells |-> [j \in 1..Len(frame.cols) |->
                                      IF j = p
                                      THEN TextCell(Strip(AsStr(frame.rows[i].cells[j],
                                                               frame.dtypes[j])))
                                      ELSE frame.rows[i].cells[j]]]]]

\* Lines 130-149 in order: year, amount, dropna, provider.
Coercion(frame, provider_col, year_col, amount_col) ==
    StripProvider(
        DropNa(CoerceAmount(CoerceYear(frame, year_col), amount_col),
               {year_col, amount_col}),
        provider_col)

-----------------------------------------------------------------------------
(* Column clean-up: lines 64-88 *)

\* Letters are one symbol each; the three accented letters of the source
\* are written a_uml, o_uml, a_ring (capitals A_uml, O_uml, A_ring).
UpperLetters ==
    <<"A", "B", "C", "D", "E", "F", "G", "H", "I", "J", "K", "L", "M", "N",
      "O", "P", "Q", "R", "S", "T", "U", "V", "W", "X", "Y", "Z",
      "A_uml", "O_uml", "A_ring">>

LowerLetters ==
    <<"a", "b", "c", "d", "e", "f", "g", "h", "i", "j", "k", "l", "m", "n",
      "o", "p", "q", "r", "s", "t", "u", "v", "w", "x", "y", "z",
      "a_uml", "o_uml", "a_ring">>

LowerChar(c) ==
    IF \E i \in 1..Len(UpperLetters) : UpperLetters[i] = c
    THEN LowerLetters[CHOOSE i \in 1..Len(UpperLetters) : UpperLetters[i] = c]
    ELSE c

\* .str.lower()
Lower(s) == [i \in 1..Len(s) |-> LowerChar(s[i])]

\* .str.replace(a, b) for one-symbol a and b
ReplaceChar(s, a, b) == [i \in 1..Len(s) |-> IF s[i] = a THEN b ELSE s[i]]

\* clean_cols, for one column name
CleanName(name) ==
    ReplaceChar(ReplaceChar(ReplaceChar(ReplaceChar(
        Lower(Strip(name)), " ", "_"), "a_uml", "a"), "o_uml", "o"), "a_ring", "a")

UnnamedPrefix == <<"U", "n", "n", "a", "m", "e", "d">>

\* .str.startswith(prefix)
StartsWith(s, prefix) ==
    Len(s) >= Len(prefix) /\ SubSeq(s, 1, Len(prefix)) = prefix

\* The DataFrame restricted to the columns at the positions in keep, in order.
SelectColumns(frame, keep) ==
    LET IsKept(j) == j \in keep
        pos == SelectSeq([j \in 1..Len(frame.cols) |-> j], IsKept)
    IN  [cols   |-> [k \in 1..Len(pos) |-> frame.cols[pos[k]]],
         dtypes |-> [k \in 1..Len(pos) |-> frame.dtypes[pos[k]]],
         rows   |-> [i \in 1..Len(frame.rows) |->
                        [id    |-> frame.rows[i].id,
                         cells |-> [k \in 1..Len(pos) |-> frame.rows[i].cells[pos[k]]]]]]

\* df.loc[:, ~df.columns.str.startswith("Unnamed")]
DropUnnamed(frame) ==
    SelectColumns(frame, {j \in 1..Len(frame.cols) : ~StartsWith(frame.cols[j], UnnamedPrefix)})

\* df.dropna(axis=1, how="all")
DropEmptyColumns(frame) ==
    SelectColumns(frame, {j \in 1..Len(frame.cols) :
                          \E i \in 1..Len(frame.rows) : ~IsNa(frame.rows[i].cells[j])})

\* df.columns = clean_cols
RenameColumns(frame) ==
    [frame EXCEPT !.cols = [j \in 1..Len(frame.cols) |-> CleanName(frame.cols[j])]]

NormalizeColumns(frame) == RenameColumns(DropEmptyColumns(DropUnnamed(frame)))

-----------------------------------------------------------------------------
(* Filters, the summ groupby and the top-N / "Other" grouping *)

\* Decimal arithmetic on <<m, e>>. (float64 rounding is not modelled.)
DecAdd(x, y) ==
    LET e == IF x[2] > y[2] THEN x[2] ELSE y[2]
    IN  Canon(x[1] * Pow10(e - x[2]) + y[1] * Pow10(e - y[2]), e)

DecLeq(x, y) == x[1] * Pow10(y[2]) <= y[1] * Pow10(x[2])

DecZero == <<0, 0>>

\* int(x) of a year
DecInt(x) == x[1] \div Pow10(x[2])

SeqRange(s) == {s[i] : i \in 1..Len(s)}

\* The orders in which the rows in S can stand in a table.
Orderings(S) ==
    {f \in [1..Cardinality(S) -> S] :
        \A i, j \in 1..Cardinality(S) : i # j => f[i] # f[j]}

\* The three role columns of a row of df.
RoleRecord(frame, r, provider_col, year_col, amount_col) ==
    [year     |-> r.cells[ColPos(frame, year_col)].n,
     provider |-> r.cells[ColPos(frame, provider_col)].s,
     amount   |-> r.cells[ColPos(frame, amount_col)].n]

RoleRecords(frame, provider_col, year_col, amount_col) ==
    [i \in 1..Len(frame.rows) |->
        RoleRecord(frame, frame.rows[i], provider_col, year_col, amount_col)]

\* all_providers (as a set; its sorted order only feeds the widget)
all_providers(recs) == {recs[i].provider : i \in 1..Len(recs)}

YearsOf(recs) == {DecInt(recs[i].year) : i \in 1..Len(recs)}

SetMax(S) == CHOOSE x \in S : \A y \in S : y <= x

\* lines 169-172
ApplyFilters(recs, selected_providers, selected_years) ==
    LET Between(r) == /\ selected_years[1] <= DecInt(r.year)
                      /\ DecInt(r.year) <= selected_years[2]
        Chosen(r)  == r.provider \in selected_providers /\ Between(r)
    IN  IF selected_providers # {}
        THEN SelectSeq(recs, Chosen)
        ELSE SelectSeq(recs, Between)

\* A groupby that keys the entries by year alone.
RECURSIVE AddToGroupByYear(_, _)
AddToGroupByYear(groups, r) ==
    IF groups = <<>>
    THEN <<r>>
    ELSE IF Head(groups).year = r.year
         THEN <<[Head(groups) EXCEPT !.amount = DecAdd(@, r.amount)]>> \o Tail(groups)
         ELSE <<Head(groups)>> \o AddToGroupByYear(Tail(groups), r)

\* groupby([year_col, provider_col])[amount_col].sum(): one pass over the
\* rows, adding each amount to the entry of its key, or opening a new entry.
RECURSIVE AddToGroup(_, _)
AddToGroup(groups, r) ==
    IF groups = <<>>
    THEN <<r>>
    ELSE IF Head(groups).year = r.year /\ Head(groups).provider = r.provider
         THEN <<[Head(groups) EXCEPT !.amount = DecAdd(@, r.amount)]>> \o Tail(groups)
         ELSE <<Head(groups)>> \o AddToGroup(Tail(groups), r)

RECURSIVE GroupBySum(_, _)
GroupBySum(recs, groups) ==
    IF recs = <<>> THEN groups
    ELSE GroupBySum(Tail(recs), AddToGroup(groups, Head(recs)))

\* sort_values([year_col, amount_col], ascending=[True, False])
SummaryBefore(x, y) ==
    \/ x.year # y.year /\ DecLeq(x.year, y.year)
    \/ x.year = y.year /\ DecLeq(y.amount, x.amount)

\* summary: the groups in sorted order; rows that tie may come in any order.
Summaries(filtered) ==
    {f \in Orderings(SeqRange(GroupBySum(filtered, <<>>))) :
        \A i \in 1..(Len(f) - 1) : SummaryBefore(f[i], f[i + 1])}

\* sort_values(amount_col, ascending=False)
AmountDescending(x, y) == DecLeq(y.amount, x.amount)

\* bar_data: summary[summary[year_col] == bar_year], sorted
BarDatas(summ, bar_year) ==
    {f \in Orderings({r \in SeqRange(summ) : DecInt(r.year) = bar_year}) :
        \A i \in 1..(Len(f) - 1) : AmountDescending(f[i], f[i + 1])}

RECURSIVE SumAmounts(_)
SumAmounts(recs) ==
    IF recs = <<>> THEN DecZero ELSE DecAdd(Head(recs).amount, SumAmounts(Tail(recs)))

OtherLabel == <<"O", "t", "h", "e", "r">>

\* lines 226-233
CollapseTail(bar_data, top_n, bar_year) ==
    IF top_n # 0 /\ Len(bar_data) > top_n
    THEN LET top        == SubSeq(bar_data, 1, top_n)
             others     == SubSeq(bar_data, top_n + 1, Len(bar_data))
             others_sum == SumAmounts(others)
         IN  top \o <<[year |-> <<bar_year, 0>>, provider |-> OtherLabel,
                       amount |-> others_sum]>>
    ELSE bar_data

-----------------------------------------------------------------------------
(* The script run: load, upload fallback, clean-up, mapping, coercion,      *)
(* aggregation                                                              *)

Strategies == {"direct", "raw", "get"}

\* df is None
NoneDf == [cols |-> <<None>>, dtypes |-> <<>>, rows |-> <<>>]

\* str(e) of the exception pd.read_csv raised
ErrorText == <<"H", "T", "T", "P", " ", "E", "r", "r", "o", "r">>

ErrorBanner == <<"CSV lataus URL:sta epaonnistui.">>

\* load_from_url with an except branch that loses the message
load_from_url_no_message(now, table) ==
    IF "direct" \in now
    THEN [df |-> table, err |-> None, attempted |-> {"direct"}]
    ELSE [df |-> NoneDf, err |-> None, attempted |-> {"direct"}]

\* The body of load_from_url: one pd.read_csv(url, ...) in a try/except.
\* attempted records which strategies the call tried.
load_from_url(now, table) ==
    IF "direct" \in now
    THEN [df |-> table, err |-> None, attempted |-> {"direct"}]
    ELSE [df |-> NoneDf, err |-> ErrorText, attempted |-> {"direct"}]

NoResult == [has |-> FALSE, val |-> [df |-> NoneDf, err |-> None, attempted |-> {}]]

\* A cache that never finds its entry.
CacheMiss(entry) == FALSE

\* @st.cache_data: the entry for the call's arguments is there
CacheHit(entry) == entry.has

\* The script continues although nothing was uploaded.
AfterUploadNoStop(upload) ==
    CASE upload = "none" -> "have_df"
      [] upload = "bad"  -> "stopped"
      [] OTHER           -> "have_df"

\* lines 46-57: where the run goes after the uploader
AfterUpload(upload) ==
    CASE upload = "none" -> "stopped"
      [] upload = "bad"  -> "stopped"
      [] OTHER           -> "have_df"

\* list(df.columns).index(c), counted from 0
ListIndex(cols, c) == (CHOOSE i \in 1..Len(cols) :
                          cols[i] = c /\ \A j \in 1..(i - 1) : cols[j] # c) - 1

\* st.sidebar.selectbox(label, options, index): the user's pick (a position
\* in options, 0 for a box left alone), else options[index], else None when
\* there is nothing to offer.
Selectbox(options, index, pick) ==
    IF pick # 0 THEN options[pick]
    ELSE IF options = <<>> THEN None
    ELSE options[index + 1]

\* lines 109-122, for one role
MapRole(cols, found, pick) ==
    IF found = None
    THEN Selectbox(cols, 0, pick)
    ELSE Selectbox(cols, ListIndex(cols, found), pick)

-----------------------------------------------------------------------------
(* Specification SpecAmount: clean_amount_series on every bounded cell *)

AmountAlphabet == {"0", "1", "5", ",", ".", "-", " ", "a"}

\* Longest generated cell text.
MaxCellLen == 4

\* "1 234,56 EUR" with the euro sign written as the one symbol "EUR"
ex_1234_56 == <<"1", " ", "2", "3", "4", ",", "5", "6", " ", "EUR">>
ex_minus45 == <<"-", "4", "5", ",", "0", "0">>
ex_dot == <<".">>
ex_abc == <<"a", "b", "c">>

AmountTexts ==
    SeqsUpTo(AmountAlphabet, MaxCellLen) \cup {ex_1234_56, ex_minus45, ex_dot, ex_abc}

AmountCells == {TextCell(s) : s \in AmountTexts} \cup {NanCell}

AmountCall ==
    /\ a_pc = "call"
    /\ a_out' = clean_amount_series(a_in, "object")
    /\ a_pc' = "ret"
    /\ UNCHANGED a_in
    /\ UNCHANGED <<run_vars, find_vars, coerce_vars, agg_vars>>

\* The decimal value of a sequence of digits.
RECURSIVE DecValue(_)
DecValue(ds) ==
    IF ds = <<>> THEN 0
    ELSE DigitVal(ds[Len(ds)]) + 10 * DecValue(SubSeq(ds, 1, Len(ds) - 1))

IsAmountKept(c) == c \in AmountKept

IsDigit(c) == c \in Digits

\* The reference of the amended claim, stated on the kept characters k of the
\* cell: the cell is zero when k is "." or ","; otherwise it is a number
\* exactly when k has at least one digit,
\* at most one separator (comma or period) and no minus sign except as its
\* first character; the number is then the digits read as an integer, divided
\* by ten for every digit after the separator, negative under a minus sign.
AmountReferenceHolds(cell, out) ==
    LET k    == SelectSeq(AsStr(cell, "object"), IsAmountKept)
        seps == {i \in 1..Len(k) : k[i] \in {",", "."}}
        mins == {i \in 1..Len(k) : k[i] = "-"}
        ds   == SelectSeq(k, IsDigit)
        frac == IF seps = {} THEN 0
                ELSE Cardinality({i \in 1..Len(k) : i > SetMin(seps) /\ k[i] \in Digits})
        val  == IF mins = {} THEN DecValue(ds) ELSE 0 - DecValue(ds)
    IN  IF k \in {<<".">>, <<",">>} THEN out = <<0, 0>>
        ELSE IF ds # <<>> /\ Cardinality(seps) <= 1 /\ mins \subseteq {1}
        THEN /\ IsNumber(out)
             /\ out[1] * Pow10(frac) = val * Pow10(out[2])
             /\ (out[2] = 0 \/ out[1] % 10 # 0)
        ELSE out = NaN

\* C7 as stated: a minus sign that is not leading is removed before parsing.
C7_LeadingMinusOnly ==
    a_pc = "ret" => a_out = clean_amount_leading_minus(a_in, "object")

\* C7 amended: amount coercion removes every character that is not a digit,
\* comma, period or minus sign (a minus sign is kept wherever it stands),
\* replaces commas by periods, turns a result that is exactly "." into zero
\* and parses the rest as a decimal; a cell that does not parse, among them
\* every cell with a minus sign after its first kept character, is missing.
\* "1 234,56 EUR" gives 1234.56, "-45,00" gives -45, "." gives 0, "abc" is
\* missing.
C7_AmountCoercion ==
    a_pc = "ret" =>
        /\ AmountReferenceHolds(a_in, a_out)
        /\ a_in = TextCell(ex_1234_56) => a_out = <<123456, 2>>
        /\ a_in = TextCell(ex_minus45) => a_out = <<0 - 45, 0>>
        /\ a_in = TextCell(ex_dot) => a_out = <<0, 0>>
        /\ a_in = TextCell(ex_abc) => a_out = NaN

\* A cell with a minus sign between digits has been coerced, to missing.
C7_Witness ==
    /\ a_pc = "ret"
    /\ a_in = TextCell(<<"1", "-", "5">>)
    /\ a_out = NaN

-----------------------------------------------------------------------------
(* Specification SpecFind: find_column on every bounded column list *)

n_palveluntuottaja ==
    <<"p", "a", "l", "v", "e", "l", "u", "n", "t", "u", "o", "t", "t", "a", "j", "a">>
n_vuosi == <<"v", "u", "o", "s", "i">>
n_korvaus_euroa ==
    <<"k", "o", "r", "v", "a", "u", "s", "_", "e", "u", "r", "o", "a">>
n_tuottaja == <<"t", "u", "o", "t", "t", "a", "j", "a">>
n_year == <<"y", "e", "a", "r">>
n_summa == <<"s", "u", "m", "m", "a">>
n_id == <<"i", "d">>

NamePool ==
    {n_palveluntuottaja, n_vuosi, n_korvaus_euroa, n_tuottaja, n_year, n_summa, n_id}

\* Longest column list find_column is tried on.
MaxCols == 3

FindCall ==
    /\ f_pc = "call"
    /\ f_out' = find_column(f_cols, KeywordsOf(f_role))
    /\ f_pc' = "ret"
    /\ UNCHANGED <<f_cols, f_role>>
    /\ UNCHANGED <<run_vars, amount_vars, coerce_vars, agg_vars>>


\* The columns of f_cols that contain at least one keyword of the role.
FindMatching(cols, kws) ==
    {i \in 1..Len(cols) : \E j \in 1..Len(kws) : Contains(kws[j], cols[i])}

\* The keywords of the role contained in at least one column.
FindHitKeywords(cols, kws) ==
    {j \in 1..Len(kws) : \E i \in 1..Len(cols) : Contains(kws[j], cols[i])}

ExampleCols == <<n_palveluntuottaja, n_vuosi, n_korvaus_euroa>>

\* C4 as stated: the result is the first column, in column order, that contains
\* any keyword of the role (column order decides before keyword order).
C4_ColumnOrderFirst ==
    f_pc = "ret" =>
        LET m == FindMatching(f_cols, KeywordsOf(f_role))
        IN  f_out = IF m = {} THEN None ELSE f_cols[SetMin(m)]

\* C4 amended: keyword-list order decides first. The result is None when no
\* keyword occurs in any column; otherwise it is the first column, in column
\* order, that contains the earliest keyword (in keyword-list order) occurring
\* in any column. The columns palveluntuottaja, vuosi, korvaus_euroa resolve to
\* themselves for provider, year and amount.
C4_KeywordOrderFirst ==
    f_pc = "ret" =>
        LET kws == KeywordsOf(f_role)
            h == FindHitKeywords(f_cols, kws)
        IN  /\ h = {} => f_out = None
            /\ h # {} =>
                 LET k == kws[SetMin(h)]
                 IN  f_out = f_cols[SetMin({i \in 1..Len(f_cols) : Contains(k, f_cols[i])})]
            /\ f_cols = ExampleCols =>
                 f_out = CASE f_role = "provider" -> n_palveluntuottaja
                           [] f_role = "year"     -> n_vuosi
                           [] f_role = "amount"   -> n_korvaus_euroa

\* A call where two columns match and the later column holds the earlier keyword.
C4_Witness ==
    /\ f_pc = "ret"
    /\ f_role = "provider"
    /\ f_cols = <<n_tuottaja, n_palveluntuottaja>>
    /\ f_out = n_palveluntuottaja

-----------------------------------------------------------------------------
(* Specification SpecCoerce: the coercion stage on every bounded table *)

t_A == <<" ", "A", " ">>
t_B == <<"B">>
t_2011 == <<"2", "0", "1", "1">>
t_2012 == <<"2", "0", "1", "2">>
t_v2013 == <<"v", ".", "2", "0", "1", "3", "5">>
t_2011_1 == <<"2", "0", "1", "1", "-", "1">>
t_12_5 == <<"1", "2", ",", "5">>
t_100 == <<"1", "0", "0">>
t_minus5 == <<"-", "5">>
t_x == <<"x">>

\* Rows as read_csv delivers them: three cells, each a text or missing.
RowPool ==
    { <<TextCell(t_A), TextCell(t_2011), TextCell(t_12_5)>>,
      <<TextCell(t_B), TextCell(t_2012), TextCell(t_x)>>,
      <<TextCell(<<>>), TextCell(t_x), TextCell(t_100)>>,
      <<NanCell, TextCell(t_v2013), TextCell(t_minus5)>>,
      <<TextCell(t_2011_1), TextCell(t_2011), TextCell(t_100)>>,
      <<TextCell(t_B), NanCell, NanCell>> }

\* Most rows of a generated table.
MaxRows == 2

CoerceCols == <<n_palveluntuottaja, n_vuosi, n_korvaus_euroa>>

MakeDf(cols, cellrows) ==
    [cols   |-> cols,
     dtypes |-> [j \in 1..Len(cols) |-> "object"],
     rows   |-> [i \in 1..Len(cellrows) |-> [id |-> i, cells |-> cellrows[i]]]]

EmptyDf == MakeDf(<<>>, <<>>)

ColSet(cols) == {cols[i] : i \in 1..Len(cols)}

CoerceRun ==
    /\ c_pc = "start"
    /\ c_out' = Coercion(c_df, c_roles.provider, c_roles.year, c_roles.amount)
    /\ c_pc' = "done"
    /\ UNCHANGED <<c_df, c_roles>>
    /\ UNCHANGED <<run_vars, find_vars, amount_vars, agg_vars>>

RolesDistinct(r) ==
    /\ r.provider # r.year
    /\ r.provider # r.amount
    /\ r.year # r.amount

\* The rows the claim keeps: those whose year cell and amount cell, as read,
\* both coerce to a number.
C8_ExpectedIds ==
    LET yp == ColPos(c_df, c_roles.year)
        ap == ColPos(c_df, c_roles.amount)
        Ok(r) == /\ IsNumber(year_to_numeric(r.cells[yp], "object"))
                 /\ IsNumber(clean_amount_series(r.cells[ap], "object"))
        kept == SelectSeq(c_df.rows, Ok)
    IN  [i \in 1..Len(kept) |-> kept[i].id]

C8_Statement ==
    LET pp == ColPos(c_df, c_roles.provider)
    IN  /\ [i \in 1..Len(c_out.rows) |-> c_out.rows[i].id] = C8_ExpectedIds
        /\ \A i \in 1..Len(c_out.rows) :
              c_out.rows[i].cells[pp] =
                  TextCell(Strip(AsStr(c_df.rows[c_out.rows[i].id].cells[pp], "object")))

\* C8 as stated: the cleaned rows are exactly the input rows, in input order,
\* whose year cell and amount cell both coerce to a number, and the provider
\* of a kept row is its input cell as a trimmed string.
C8_RowRetention == c_pc = "done" => C8_Statement

\* The same statement for runs whose three role columns are pairwise distinct.
C8_RowRetentionDistinctRoles ==
    (c_pc = "done" /\ RolesDistinct(c_roles)) => C8_Statement

-----------------------------------------------------------------------------
(* Specification SpecAgg: filters, summ and top-N on cleaned tables *)

t_Ap == <<"A">>
t_Cp == <<"C">>
t_50 == <<"5", "0">>
t_30 == <<"3", "0">>
t_70 == <<"7", "0">>
t_10_5 == <<"1", "0", ",", "5">>

AggRowPool ==
    { <<TextCell(t_Ap), TextCell(t_2011), TextCell(t_100)>>,
      <<TextCell(t_B), TextCell(t_2011), TextCell(t_50)>>,
      <<TextCell(t_Ap), TextCell(t_2012), TextCell(t_30)>>,
      <<TextCell(OtherLabel), TextCell(t_2011), TextCell(t_70)>>,
      <<TextCell(t_Cp), TextCell(t_2011), TextCell(t_10_5)>>,
      <<TextCell(t_B), TextCell(t_2011), TextCell(t_minus5)>> }

\* Most rows of a generated cleaned table.
MaxAggRows == 4

\* number_input(..., min_value=3, max_value=50, ...)
TopNMin == 3

TopNMax == 50

\* Largest top_n the model tries.
MaxTopN == 4

TopNChoices == {n \in TopNMin..TopNMax : n <= MaxTopN}

NoRows == <<>>

AggRecs == RoleRecords(g_df, n_palveluntuottaja, n_vuosi, n_korvaus_euroa)

\* lines 159-160 on an empty table: int(nan) raises
AggCrash ==
    /\ g_pc = "start"
    /\ g_df.rows = <<>>
    /\ g_pc' = "crashed"
    /\ UNCHANGED <<g_df, g_filtered, g_top_n, g_summary, g_bar_data, g_plot>>
    /\ UNCHANGED <<run_vars, find_vars, amount_vars, coerce_vars>>

\* lines 155-172: the sidebar widgets and the filter
AggFilter ==
    /\ g_pc = "start"
    /\ g_df.rows # <<>>
    /\ LET min_year == SetMin(YearsOf(AggRecs))
           max_year == SetMax(YearsOf(AggRecs))
       IN  \E selected_providers \in SUBSET all_providers(AggRecs),
              lo \in min_year..max_year, hi \in min_year..max_year,
              top_n \in TopNChoices :
                /\ lo <= hi
                /\ g_filtered' = ApplyFilters(AggRecs, selected_providers, <<lo, hi>>)
                /\ g_top_n' = top_n
    /\ g_pc' = "filtered"
    /\ UNCHANGED <<g_df, g_summary, g_bar_data, g_plot>>
    /\ UNCHANGED <<run_vars, find_vars, amount_vars, coerce_vars>>

\* lines 175-181
AggSummary ==
    /\ g_pc = "filtered"
    /\ g_summary' \in Summaries(g_filtered)
    /\ g_pc' = "summ"
    /\ UNCHANGED <<g_df, g_filtered, g_top_n, g_bar_data, g_plot>>
    /\ UNCHANGED <<run_vars, find_vars, amount_vars, coerce_vars>>

\* lines 214-216: no year left
AggNoYears ==
    /\ g_pc = "summ"
    /\ g_summary = <<>>
    /\ g_pc' = "done"
    /\ UNCHANGED <<g_df, g_filtered, g_top_n, g_summary, g_bar_data, g_plot>>
    /\ UNCHANGED <<run_vars, find_vars, amount_vars, coerce_vars>>

\* lines 218-233
AggBar ==
    /\ g_pc = "summ"
    /\ \E bar_year \in YearsOf(g_summary) :
          \E bar_data \in BarDatas(g_summary, bar_year) :
              /\ g_bar_data' = bar_data
              /\ g_plot' = CollapseTail(bar_data, g_top_n, bar_year)
    /\ g_pc' = "done"
    /\ UNCHANGED <<g_df, g_filtered, g_top_n, g_summary>>
    /\ UNCHANGED <<run_vars, find_vars, amount_vars, coerce_vars>>

KeyOf(r) == <<r.year, r.provider>>

\* The sum of the amounts of the rows of recs whose key is k, by position.
RECURSIVE SumOfKey(_, _, _)
SumOfKey(recs, k, i) ==
    IF i = 0 THEN DecZero
    ELSE IF KeyOf(recs[i]) = k
         THEN DecAdd(SumOfKey(recs, k, i - 1), recs[i].amount)
         ELSE SumOfKey(recs, k, i - 1)

ex_rows ==
    << [year |-> <<2011, 0>>, provider |-> t_Ap, amount |-> <<100, 0>>],
       [year |-> <<2011, 0>>, provider |-> t_B, amount |-> <<50, 0>>],
       [year |-> <<2012, 0>>, provider |-> t_Ap, amount |-> <<30, 0>>] >>

\* C9: the summary has exactly one entry per (year, provider) pair occurring
\* in the filtered rows, none for any other pair, and each entry's amount is
\* the sum of the amounts of the filtered rows with that pair; the rows
\* (2011,A,100), (2011,B,50), (2012,A,30) give exactly those three entries.
C9_SummaryPerKey ==
    g_pc \in {"summ", "done"} =>
        /\ \A i \in 1..Len(g_filtered) :
              Cardinality({j \in 1..Len(g_summary) :
                              KeyOf(g_summary[j]) = KeyOf(g_filtered[i])}) = 1
        /\ \A j \in 1..Len(g_summary) :
              /\ \E i \in 1..Len(g_filtered) : KeyOf(g_filtered[i]) = KeyOf(g_summary[j])
              /\ g_summary[j].amount =
                     SumOfKey(g_filtered, KeyOf(g_summary[j]), Len(g_filtered))
        /\ g_filtered = ex_rows => SeqRange(g_summary) = SeqRange(ex_rows)

\* A summary of several rows with one key beside other keys.
C9_Witness ==
    /\ g_pc = "summ"
    /\ Len(g_filtered) = 4
    /\ Len(g_summary) = 2
    /\ \E j \in 1..Len(g_summary) : g_summary[j].amount = <<200, 0>>

ex_totals ==
    << [year |-> <<2011, 0>>, provider |-> t_Ap, amount |-> <<100, 0>>],
       [year |-> <<2011, 0>>, provider |-> t_B, amount |-> <<50, 0>>],
       [year |-> <<2011, 0>>, provider |-> t_Cp, amount |-> <<10, 0>>] >>

Labels(recs) == [i \in 1..Len(recs) |-> recs[i].provider]

\* C10 as stated: with more than n entries the result is the top n entries
\* unchanged plus exactly one entry labeled "Other" holding the sum of the
\* rest, n+1 entries with pairwise distinct labels and the input's total; with
\* n or fewer entries the result is the input. {A:100,B:50,C:10} with n=1
\* gives {A:100,Other:60}.
C10_CollapseTail ==
    /\ Labels(CollapseTail(ex_totals, 1, 2011)) = <<t_Ap, OtherLabel>>
    /\ CollapseTail(ex_totals, 1, 2011)[2].amount = <<60, 0>>
    /\ g_pc = "done" /\ g_summary # <<>> =>
          IF Len(g_bar_data) > g_top_n
          THEN /\ Len(g_plot) = g_top_n + 1
               /\ SubSeq(g_plot, 1, g_top_n) = SubSeq(g_bar_data, 1, g_top_n)
               /\ g_plot[g_top_n + 1].provider = OtherLabel
               /\ g_plot[g_top_n + 1].amount =
                      SumAmounts(SubSeq(g_bar_data, g_top_n + 1, Len(g_bar_data)))
               /\ \A i, j \in 1..Len(g_plot) :
                      i # j => g_plot[i].provider # g_plot[j].provider
               /\ SumAmounts(g_plot) = SumAmounts(g_bar_data)
          ELSE g_plot = g_bar_data

-----------------------------------------------------------------------------
(* Specification Spec: runs of the whole script *)

r_Palveluntuottaja ==
    <<"P", "a", "l", "v", "e", "l", "u", "n", "t", "u", "o", "t", "t", "a", "j", "a">>
r_Vuosi == <<" ", "V", "u", "o", "s", "i">>
r_Maara_euroa == <<"M", "a_uml", "a_uml", "r", "a_uml", " ", "e", "u", "r", "o", "a">>
r_Unnamed4 == <<"U", "n", "n", "a", "m", "e", "d", ":", " ", "4">>
n_nimi == <<"n", "i", "m", "i">>
n_vuosi_summa == <<"v", "u", "o", "s", "i", "_", "s", "u", "m", "m", "a">>
n_a == <<"a">>
n_b == <<"b">>
n_c == <<"c">>

\* The source file's shape: three named columns and an empty "Unnamed" one.
T_std ==
    MakeDf(<<r_Palveluntuottaja, r_Vuosi, r_Maara_euroa, r_Unnamed4>>,
           << <<TextCell(t_A), TextCell(t_2011), TextCell(t_12_5), NanCell>>,
              <<TextCell(t_B), TextCell(t_2011), TextCell(t_100), NanCell>>,
              <<TextCell(t_B), TextCell(t_2012), TextCell(t_x), NanCell>> >>)

\* No provider keyword in any column name.
T_nimi ==
    MakeDf(<<n_nimi, n_vuosi, n_summa>>,
           << <<TextCell(t_A), TextCell(t_2011), TextCell(t_100)>> >>)

\* No keyword at all.
T_abc ==
    MakeDf(<<n_a, n_b, n_c>>,
           << <<TextCell(t_2011_1), TextCell(t_x), TextCell(t_100)>> >>)

\* One column that matches two roles.
T_one == MakeDf(<<n_vuosi_summa>>, << <<TextCell(t_2011)>> >>)

\* A header line and no rows.
T_header == MakeDf(<<n_vuosi, n_summa>>, <<>>)

TablePool == {T_std, T_nimi, T_abc, T_one, T_header}

\* Most script runs of one behaviour.
MaxRuns == 2

NoRoles == [r \in Roles |-> None]

NoPicks == [r \in Roles |-> FALSE]

\* line 38, answered from the cache
LoadCached ==
    /\ pc = "start"
    /\ CacheHit(cache)
    /\ ret' = cache.val
    /\ df' = cache.val.df
    /\ pc' = "loaded"
    /\ UNCHANGED <<runs, net, url_table, cache, net_accesses, fetch_net, first_result,
                   src, up_table, shown, auto, roles, explicit, summary, bar_plot_data>>
    /\ UNCHANGED <<find_vars, amount_vars, coerce_vars, agg_vars>>

\* line 38, running load_from_url and storing what it returns
LoadFetch ==
    /\ pc = "start"
    /\ ~CacheHit(cache)
    /\ LET r == load_from_url(net, url_table)
       IN  /\ ret' = r
           /\ df' = r.df
           /\ cache' = [has |-> TRUE, val |-> r]
           /\ first_result' = IF first_result.has THEN first_result
                              ELSE [has |-> TRUE, val |-> r]
    /\ net_accesses' = net_accesses + 1
    /\ fetch_net' = net
    /\ pc' = "loaded"
    /\ UNCHANGED <<runs, net, url_table, src, up_table, shown, auto, roles, explicit,
                   summary, bar_plot_data>>
    /\ UNCHANGED <<find_vars, amount_vars, coerce_vars, agg_vars>>

\* lines 58-59
LoadSucceeded ==
    /\ pc = "loaded"
    /\ df # NoneDf
    /\ src' = "url"
    /\ pc' = "have_df"
    /\ UNCHANGED <<runs, net, url_table, cache, net_accesses, fetch_net, first_result,
                   ret, up_table, df, shown, auto, roles, explicit, summary,
                   bar_plot_data>>
    /\ UNCHANGED <<find_vars, amount_vars, coerce_vars, agg_vars>>

\* lines 41-57: the error, its text, and the uploader ("none": nothing
\* uploaded, "bad": a file pd.read_csv cannot parse, else the parsed table)
LoadFailed ==
    /\ pc = "loaded"
    /\ df = NoneDf
    /\ shown' = shown \cup {ErrorBanner, ret.err}
    /\ \E upload \in {"none", "bad", "good"} :
          /\ pc' = AfterUpload(upload)
          /\ IF upload = "good"
             THEN \E tab \in TablePool :
                     /\ up_table' = tab
                     /\ df' = tab
                     /\ src' = "upload"
             ELSE UNCHANGED <<up_table, df, src>>
    /\ UNCHANGED <<runs, net, url_table, cache, net_accesses, fetch_net, first_result,
                   ret, auto, roles, explicit, summary, bar_plot_data>>
    /\ UNCHANGED <<find_vars, amount_vars, coerce_vars, agg_vars>>

\* lines 64-88
Normalize ==
    /\ pc = "have_df"
    /\ df' = NormalizeColumns(df)
    /\ pc' = "normalized"
    /\ UNCHANGED <<runs, net, url_table, cache, net_accesses, fetch_net, first_result,
                   ret, src, up_table, shown, auto, roles, explicit, summary,
                   bar_plot_data>>
    /\ UNCHANGED <<find_vars, amount_vars, coerce_vars, agg_vars>>

\* lines 100-122
Resolve ==
    /\ pc = "normalized"
    /\ LET found == [r \in Roles |-> find_column(df.cols, KeywordsOf(r))]
       IN  /\ auto' = found
           /\ \E pick \in [Roles -> 0..Len(df.cols)] :
                 /\ roles' = [r \in Roles |-> MapRole(df.cols, found[r], pick[r])]
                 /\ explicit' = [r \in Roles |-> pick[r] # 0]
    /\ pc' = "mapped"
    /\ UNCHANGED <<runs, net, url_table, cache, net_accesses, fetch_net, first_result,
                   ret, src, up_table, df, shown, summary, bar_plot_data>>
    /\ UNCHANGED <<find_vars, amount_vars, coerce_vars, agg_vars>>

\* line 133 with no column to name: df[None] raises KeyError
CoerceKeyError ==
    /\ pc = "mapped"
    /\ \E r \in Roles : roles[r] = None
    /\ pc' = "crashed"
    /\ UNCHANGED <<runs, net, url_table, cache, net_accesses, fetch_net, first_result,
                   ret, src, up_table, df, shown, auto, roles, explicit, summary,
                   bar_plot_data>>
    /\ UNCHANGED <<find_vars, amount_vars, coerce_vars, agg_vars>>

\* lines 130-149
Coerce ==
    /\ pc = "mapped"
    /\ \A r \in Roles : roles[r] # None
    /\ df' = Coercion(df, roles.provider, roles.year, roles.amount)
    /\ pc' = "coerced"
    /\ UNCHANGED <<runs, net, url_table, cache, net_accesses, fetch_net, first_result,
                   ret, src, up_table, shown, auto, roles, explicit, summary,
                   bar_plot_data>>
    /\ UNCHANGED <<find_vars, amount_vars, coerce_vars, agg_vars>>

\* lines 155-181 raise: int(nan) on an empty table (line 159); a role column
\* shared with another role is compared as text (line 170) or cannot be
\* re-inserted by reset_index (line 179)
AggregateError ==
    /\ pc = "coerced"
    /\ df.rows = <<>> \/ ~RolesDistinct(roles)
    /\ pc' = "crashed"
    /\ UNCHANGED <<runs, net, url_table, cache, net_accesses, fetch_net, first_result,
                   ret, src, up_table, df, shown, auto, roles, explicit, summary,
                   bar_plot_data>>
    /\ UNCHANGED <<find_vars, amount_vars, coerce_vars, agg_vars>>

\* lines 155-233
Aggregate ==
    /\ pc = "coerced"
    /\ df.rows # <<>> /\ RolesDistinct(roles)
    /\ LET recs     == RoleRecords(df, roles.provider, roles.year, roles.amount)
           min_year == SetMin(YearsOf(recs))
           max_year == SetMax(YearsOf(recs))
       IN  \E selected_providers \in SUBSET all_providers(recs),
              lo \in min_year..max_year, hi \in min_year..max_year,
              top_n \in TopNChoices :
                /\ lo <= hi
                /\ \E s \in Summaries(ApplyFilters(recs, selected_providers, <<lo, hi>>)) :
                      /\ summary' = s
                      /\ IF s = <<>>
                         THEN bar_plot_data' = NoRows
                         ELSE \E bar_year \in YearsOf(s) :
                                 \E bar_data \in BarDatas(s, bar_year) :
                                     bar_plot_data' = CollapseTail(bar_data, top_n, bar_year)
    /\ pc' = "done"
    /\ UNCHANGED <<runs, net, url_table, cache, net_accesses, fetch_net, first_result,
                   ret, src, up_table, df, shown, auto, roles, explicit>>
    /\ UNCHANGED <<find_vars, amount_vars, coerce_vars, agg_vars>>

\* The next interaction: the script starts again from the top; the memo of
\* load_from_url lives on, the network may have changed.
Rerun ==
    /\ pc \in {"done", "stopped", "crashed"}
    /\ runs < MaxRuns
    /\ runs' = runs + 1
    /\ net' \in SUBSET Strategies
    /\ pc' = "start"
    /\ ret' = NoResult.val
    /\ src' = "none"
    /\ up_table' = NoneDf
    /\ df' = NoneDf
    /\ shown' = {}
    /\ auto' = NoRoles
    /\ roles' = NoRoles
    /\ explicit' = NoPicks
    /\ summary' = NoRows
    /\ bar_plot_data' = NoRows
    /\ UNCHANGED <<url_table, cache, net_accesses, fetch_net, first_result>>
    /\ UNCHANGED <<find_vars, amount_vars, coerce_vars, agg_vars>>

Fetched == cache.has

FetchFailed == cache.has /\ cache.val.df = NoneDf

\* C1 as stated: a fetch failure is reported only after all three strategies
\* (direct parse, rewritten raw-content URL, explicit HTTP GET) were attempted
\* and none of them would succeed.
C1_ThreeStrategyFallback ==
    FetchFailed =>
        /\ cache.val.attempted = Strategies
        /\ fetch_net = {}

\* C1 amended: fetching is one strategy, the direct parse of the source. The
\* fetch reports a failure (no table, and the parse error's text) exactly when
\* that direct parse fails; it tries neither a rewritten raw-content URL nor
\* an explicit HTTP GET, also when one of them would succeed. When the direct
\* parse succeeds, its table is returned with no error text.
C1_DirectParseOnly ==
    Fetched =>
        /\ cache.val.attempted = {"direct"}
        /\ FetchFailed <=> "direct" \notin fetch_net
        /\ FetchFailed <=> cache.val.err # None
        /\ "direct" \in fetch_net => cache.val.df = url_table

\* The fetch failed although the raw-content URL and the HTTP GET would work.
C1_Witness ==
    /\ FetchFailed
    /\ {"raw", "get"} \subseteq fetch_net
    /\ pc = "stopped"

\* C2: every call of load_from_url returns what the first call returned, and
\* the network is accessed at most once for the one argument key (URL).
C2_Memoized ==
    /\ net_accesses <= 1
    /\ pc \notin {"start", "off"} => first_result.has /\ ret = first_result.val

\* A second run, under a changed network, answered from the memo.
C2_Witness ==
    /\ runs = 2
    /\ pc = "loaded"
    /\ net # fetch_net
    /\ net_accesses = 1
    /\ ret = first_result.val

PostFetch == {"have_df", "normalized", "mapped", "coerced", "done", "crashed"}

\* C3: when load_from_url returned an error, its text is on the page, no
\* stage after the fetch runs unless an uploaded file was parsed, and then
\* the stages run on the uploaded table as they do on a table from the URL.
C3_UploadIsOnlyRecovery ==
    /\ (pc \notin {"start", "loaded", "off"} /\ ret.df = NoneDf) =>
          {ErrorBanner, ret.err} \subseteq shown /\ ret.err # None
    /\ (pc \in PostFetch /\ ret.df = NoneDf) =>
          src = "upload" /\ up_table \in TablePool
    /\ pc \in PostFetch => src \in {"url", "upload"}
    /\ pc = "have_df" => df = (IF src = "upload" THEN up_table ELSE ret.df)
    /\ pc = "normalized" =>
          df = NormalizeColumns(IF src = "upload" THEN up_table ELSE ret.df)

\* A run that failed to load, took an upload, and went through every stage.
C3_Witness ==
    /\ pc = "done"
    /\ ret.df = NoneDf
    /\ src = "upload"
    /\ summary # NoRows

\* C5 as stated: coercion and aggregation run only when every role that
\* keyword matching left unassigned was chosen by the user.
C5_NoGuessing ==
    pc \in {"coerced", "done"} =>
        \A r \in Roles : auto[r] = None => explicit[r]

\* C6 as stated: coercion runs on three pairwise distinct role columns, each
\* a column of the table.
C6_DistinctMemberColumns ==
    pc = "coerced" =>
        /\ RolesDistinct(roles)
        /\ \A r \in Roles : roles[r] \in ColSet(df.cols)

-----------------------------------------------------------------------------
(* The specifications *)

FindInit ==
    /\ f_cols \in SeqsUpTo(NamePool, MaxCols)
    /\ f_role \in Roles
    /\ f_out = None
    /\ f_pc = "call"
    \* the script is not run
    /\ pc = "off"
    /\ runs = 0
    /\ net = {}
    /\ url_table = NoneDf
    /\ cache = NoResult
    /\ net_accesses = 0
    /\ fetch_net = {}
    /\ first_result = NoResult
    /\ ret = NoResult.val
    /\ src = "none"
    /\ up_table = NoneDf
    /\ df = NoneDf
    /\ shown = {}
    /\ auto = NoRoles
    /\ roles = NoRoles
    /\ explicit = NoPicks
    /\ summary = NoRows
    /\ bar_plot_data = NoRows
    \* clean_amount_series is not called
    /\ a_in = NanCell
    /\ a_out = NaN
    /\ a_pc = "off"
    \* the coercion is not run on its own
    /\ c_df = EmptyDf
    /\ c_roles = [provider |-> None, year |-> None, amount |-> None]
    /\ c_out = EmptyDf
    /\ c_pc = "off"
    \* the aggregation is not run on its own
    /\ g_df = EmptyDf
    /\ g_filtered = NoRows
    /\ g_top_n = 0
    /\ g_summary = NoRows
    /\ g_bar_data = NoRows
    /\ g_plot = NoRows
    /\ g_pc = "off"

AmountInit ==
    /\ a_in \in AmountCells
    /\ a_out = NaN
    /\ a_pc = "call"
    \* the script is not run
    /\ pc = "off"
    /\ runs = 0
    /\ net = {}
    /\ url_table = NoneDf
    /\ cache = NoResult
    /\ net_accesses = 0
    /\ fetch_net = {}
    /\ first_result = NoResult
    /\ ret = NoResult.val
    /\ src = "none"
    /\ up_table = NoneDf
    /\ df = NoneDf
    /\ shown = {}
    /\ auto = NoRoles
    /\ roles = NoRoles
    /\ explicit = NoPicks
    /\ summary = NoRows
    /\ bar_plot_data = NoRows
    \* find_column is not called
    /\ f_cols = <<>>
    /\ f_role = "provider"
    /\ f_out = None
    /\ f_pc = "off"
    \* the coercion is not run on its own
    /\ c_df = EmptyDf
    /\ c_roles = [provider |-> None, year |-> None, amount |-> None]
    /\ c_out = EmptyDf
    /\ c_pc = "off"
    \* the aggregation is not run on its own
    /\ g_df = EmptyDf
    /\ g_filtered = NoRows
    /\ g_top_n = 0
    /\ g_summary = NoRows
    /\ g_bar_data = NoRows
    /\ g_plot = NoRows
    /\ g_pc = "off"

\* The sidebar select boxes offer every column for every role.
CoerceInit ==
    /\ c_df \in {MakeDf(CoerceCols, rs) : rs \in SeqsUpTo(RowPool, MaxRows)}
    /\ c_roles \in [{"provider", "year", "amount"} -> ColSet(CoerceCols)]
    /\ c_out = EmptyDf
    /\ c_pc = "start"
    \* the script is not run
    /\ pc = "off"
    /\ runs = 0
    /\ net = {}
    /\ url_table = NoneDf
    /\ cache = NoResult
    /\ net_accesses = 0
    /\ fetch_net = {}
    /\ first_result = NoResult
    /\ ret = NoResult.val
    /\ src = "none"
    /\ up_table = NoneDf
    /\ df = NoneDf
    /\ shown = {}
    /\ auto = NoRoles
    /\ roles = NoRoles
    /\ explicit = NoPicks
    /\ summary = NoRows
    /\ bar_plot_data = NoRows
    \* find_column is not called
    /\ f_cols = <<>>
    /\ f_role = "provider"
    /\ f_out = None
    /\ f_pc = "off"
    \* clean_amount_series is not called
    /\ a_in = NanCell
    /\ a_out = NaN
    /\ a_pc = "off"
    \* the aggregation is not run on its own
    /\ g_df = EmptyDf
    /\ g_filtered = NoRows
    /\ g_top_n = 0
    /\ g_summary = NoRows
    /\ g_bar_data = NoRows
    /\ g_plot = NoRows
    /\ g_pc = "off"

AggInit ==
    /\ g_df \in {Coercion(MakeDf(CoerceCols, rs),
                          n_palveluntuottaja, n_vuosi, n_korvaus_euroa) :
                    rs \in SeqsUpTo(AggRowPool, MaxAggRows)}
    /\ g_filtered = NoRows
    /\ g_top_n = 0
    /\ g_summary = NoRows
    /\ g_bar_data = NoRows
    /\ g_plot = NoRows
    /\ g_pc = "start"
    \* the script is not run
    /\ pc = "off"
    /\ runs = 0
    /\ net = {}
    /\ url_table = NoneDf
    /\ cache = NoResult
    /\ net_accesses = 0
    /\ fetch_net = {}
    /\ first_result = NoResult
    /\ ret = NoResult.val
    /\ src = "none"
    /\ up_table = NoneDf
    /\ df = NoneDf
    /\ shown = {}
    /\ auto = NoRoles
    /\ roles = NoRoles
    /\ explicit = NoPicks
    /\ summary = NoRows
    /\ bar_plot_data = NoRows
    \* find_column is not called
    /\ f_cols = <<>>
    /\ f_role = "provider"
    /\ f_out = None
    /\ f_pc = "off"
    \* clean_amount_series is not called
    /\ a_in = NanCell
    /\ a_out = NaN
    /\ a_pc = "off"
    \* the coercion is not run on its own
    /\ c_df = EmptyDf
    /\ c_roles = [provider |-> None, year |-> None, amount |-> None]
    /\ c_out = EmptyDf
    /\ c_pc = "off"

Init ==
    /\ pc = "start"
    /\ runs = 1
    /\ net \in SUBSET Strategies
    /\ url_table \in TablePool
    /\ cache = NoResult
    /\ net_accesses = 0
    /\ fetch_net = {}
    /\ first_result = NoResult
    /\ ret = NoResult.val
    /\ src = "none"
    /\ up_table = NoneDf
    /\ df = NoneDf
    /\ shown = {}
    /\ auto = NoRoles
    /\ roles = NoRoles
    /\ explicit = NoPicks
    /\ summary = NoRows
    /\ bar_plot_data = NoRows
    \* find_column is not called
    /\ f_cols = <<>>
    /\ f_role = "provider"
    /\ f_out = None
    /\ f_pc = "off"
    \* clean_amount_series is not called
    /\ a_in = NanCell
    /\ a_out = NaN
    /\ a_pc = "off"
    \* the coercion is not run on its own
    /\ c_df = EmptyDf
    /\ c_roles = [provider |-> None, year |-> None, amount |-> None]
    /\ c_out = EmptyDf
    /\ c_pc = "off"
    \* the aggregation is not run on its own
    /\ g_df = EmptyDf
    /\ g_filtered = NoRows
    /\ g_top_n = 0
    /\ g_summary = NoRows
    /\ g_bar_data = NoRows
    /\ g_plot = NoRows
    /\ g_pc = "off"

Next ==
    \/ LoadCached
    \/ LoadFetch
    \/ LoadSucceeded
    \/ LoadFailed
    \/ Normalize
    \/ Resolve
    \/ CoerceKeyError
    \/ Coerce
    \/ AggregateError
    \/ Aggregate
    \/ Rerun

Spec == Init /\ [][Next]_vars

FindNext == FindCall

SpecFind == FindInit /\ [][FindNext]_vars

AmountNext == AmountCall

SpecAmount == AmountInit /\ [][AmountNext]_vars

CoerceNext == CoerceRun

SpecCoerce == CoerceInit /\ [][CoerceNext]_vars

AggNext == AggCrash \/ AggFilter \/ AggSummary \/ AggNoYears \/ AggBar

SpecAgg == AggInit /\ [][AggNext]_vars

=============================================================================
